---------------------------- MODULE Spec2Model ----------------------------
(***************************************************************************)
(* Strobe controller firmware (PIC16F18856), hardware-trigger variant.     *)
(*                                                                         *)
(*   firmware/strobe-pic/main_hardware_trigger.c                           *)
(*       find_scalers_time, set_strobe_enable, set_strobe_hold,            *)
(*       set_strobe_timing, set_trigger_mode, hardware_trigger_strobe,     *)
(*       main (command dispatch and gate-measurement poll)                 *)
(*   module-strobe-imaging/strobe_pic/interrupt_manager_hardware_trigger.c *)
(*       INTERRUPT_InterruptManager                                        *)
(*                                                                         *)
(* Two specifications are defined over the same variables:                 *)
(*   SolveSpec  one call of find_scalers_time on a target drawn from       *)
(*              SolveTargets (the divider search as a pure function);      *)
(*   Spec       the foreground loop of main, statement by statement,       *)
(*              preempted by the interrupt manager, with the gate input    *)
(*              and the timers' counting as the environment.               *)
(*                                                                         *)
(* Arithmetic.  The firmware computes in uint32_t.  Every value formed     *)
(* here stays below 2^31 (the largest is MAX_TIME_NS * 100 =               *)
(* 1,632,000,000), so the integer operators below coincide with the        *)
(* firmware's modulo-2^32 arithmetic; TLC itself stops with an overflow    *)
(* error if a product leaves that range.                                   *)
(***************************************************************************)
EXTENDS Integers, Sequences, FiniteSets, TLC

(***************************************************************************)
(* Strobe constants (main_hardware_trigger.c, lines 28-31).                *)
(***************************************************************************)
CLOCK_FREQ == 32000000

PS_PER_TICK == 1000000000 \div (CLOCK_FREQ \div 1000)

TIME_SCALING == 10

\* (as MAX_TIME_NS, with a range check that lets targets up to 44,800,000 in)
MaxTimeNsWide == (((PS_PER_TICK * 128) \div 1000) * 16) * 700

\* ( ( (uint32_t)PS_PER_TICK << 7 ) / 1000 ) * 16 * 255
MAX_TIME_NS == (((PS_PER_TICK * 128) \div 1000) * 16) * 255

(***************************************************************************)
(* Bounds of the model.                                                    *)
(***************************************************************************)
\* SolveSpec tries every target 0 .. MaxSmallTarget besides the large ones.
MaxSmallTarget == 99

\* The gate counter TMR1 and the wait timer's counter TMR2 count up to these.
MaxTMR1 == 2

MaxTMR2 == 1

(***************************************************************************)
(* Integer helpers standing for C operators.                               *)
(***************************************************************************)
RECURSIVE Pow2(_)
Pow2(n) == IF n = 0 THEN 1 ELSE 2 * Pow2(n - 1)

\* x << n and x >> n on non-negative values
Shl(x, n) == x * Pow2(n)

Shr(x, n) == x \div Pow2(n)

\* labs() of the difference of two uint32_t below 2^31: the subtraction
\* wraps modulo 2^32 and is read back as a signed long, which is a - b.
LabsDiff(a, b) == IF a >= b THEN a - b ELSE b - a

\* a value stored into a uint8_t
ToU8(x) == x % 256

\* a | b and a & b on non-negative values
RECURSIVE BitOr(_, _)
BitOr(a, b) ==
    IF a = 0 THEN b
    ELSE IF b = 0 THEN a
    ELSE (IF a % 2 = 1 \/ b % 2 = 1 THEN 1 ELSE 0) + 2 * BitOr(a \div 2, b \div 2)

RECURSIVE BitAnd(_, _)
BitAnd(a, b) ==
    IF a = 0 \/ b = 0 THEN 0
    ELSE (IF a % 2 = 1 /\ b % 2 = 1 THEN 1 ELSE 0) + 2 * BitAnd(a \div 2, b \div 2)

\* TxCONbits.ON: bit 7 of a timer control register, read and written
OnBit(con) == con \div 128

WithOnBit(con, on) == (con % 128) + 128 * on

(***************************************************************************)
(* find_scalers_time: the divider search.                                  *)
(***************************************************************************)
\* line 77: target in ns to clock ticks, rounded to the nearest tick
TicksOf(target_time_ns) ==
    (target_time_ns * (1000 \div TIME_SCALING)
        + (Shr(PS_PER_TICK, 1) \div TIME_SCALING))
    \div (PS_PER_TICK \div TIME_SCALING)

\* lines 90-93: the period count tried for one (postscale, prescale) pair
PeriodLoop(rem, prescale_loop) ==
    IF prescale_loop = 0
    THEN rem
    ELSE Shr(Shr(rem, prescale_loop - 1) + 1, 1)

\* line 95: the combinations the search accepts
ValidCombo(period_loop, prescale_loop) ==
    /\ period_loop > 0
    /\ period_loop <= 255
    /\ (period_loop > 1 \/ prescale_loop > 0)

\* line 97: back-conversion of (prescale, period count, postscale count) to ns
TimeNs(prescale_loop, period_loop, postscale_loop) ==
    ((Shl(PS_PER_TICK \div TIME_SCALING, prescale_loop) * period_loop)
        * postscale_loop) \div (1000 \div TIME_SCALING)

\* lines 79-82: the search starts from an all-zero "best"
BestInit == [time_ns |-> 0, postscale |-> 0, prescale |-> 0, period |-> 0]

\* line 99: a strictly smaller absolute error replaces the best so far
Better(time_ns_loop, time_ns_best, target_time_ns) ==
    LabsDiff(time_ns_loop, target_time_ns) < LabsDiff(time_ns_best, target_time_ns)

\* lines 88-110: the inner loop, prescale_loop = 7 down to 0, left by the
\* break of line 108 on an exact match.  (best.time_ns < 0 never holds: it
\* makes TLC evaluate the running best before it descends, which keeps the
\* evaluation stack shallow.)
RECURSIVE PrescaleLoop(_, _, _, _, _)
PrescaleLoop(target_time_ns, rem, postscale_loop, prescale_loop, best) ==
    IF prescale_loop < 0 \/ best.time_ns < 0
    THEN best
    ELSE LET period_loop  == PeriodLoop(rem, prescale_loop)
             valid        == ValidCombo(period_loop, prescale_loop)
             time_ns_loop == TimeNs(prescale_loop, period_loop, postscale_loop)
             best2 == IF valid /\ Better(time_ns_loop, best.time_ns, target_time_ns)
                      THEN [time_ns   |-> time_ns_loop,
                            postscale |-> postscale_loop,
                            prescale  |-> prescale_loop,
                            period    |-> period_loop]
                      ELSE best
         IN  IF valid /\ time_ns_loop = target_time_ns
             THEN best2
             ELSE PrescaleLoop(target_time_ns, rem, postscale_loop,
                               prescale_loop - 1, best2)

\* lines 84-111: the outer loop, postscale_loop = 16 down to 1
RECURSIVE PostscaleLoop(_, _, _, _)
PostscaleLoop(target_time_ns, ticks, postscale_loop, best) ==
    IF postscale_loop < 1 \/ best.time_ns < 0
    THEN best
    ELSE PostscaleLoop(target_time_ns, ticks, postscale_loop - 1,
                       PrescaleLoop(target_time_ns, ticks \div postscale_loop,
                                    postscale_loop, 7, best))

\* lines 74-117.  The result is [ret, written, prescale, postscale, period]:
\* on the early return of line 75 nothing is stored through the three
\* pointers (written = FALSE) and the caller's variables keep what they held.
find_scalers_time(target_time_ns) ==
    IF target_time_ns > MAX_TIME_NS
    THEN [ret |-> 0, written |-> FALSE, prescale |-> 0, postscale |-> 0, period |-> 0]
    ELSE LET best == PostscaleLoop(target_time_ns, TicksOf(target_time_ns), 16, BestInit)
         IN  [ret       |-> best.time_ns,
              written   |-> TRUE,
              prescale  |-> best.prescale,
              postscale |-> ToU8(best.postscale - 1),
              period    |-> ToU8(best.period - 1)]

(***************************************************************************)
(* State.                                                                  *)
(***************************************************************************)
VARIABLES
    \* firmware globals (main_hardware_trigger.c, lines 41-50)
    trigger_mode,       \* 0 = software trigger, 1 = hardware trigger
    strobe_enabled,     \* 0 / 1
    cam_read_time_us,   \* last gate measurement read by the poll
    packet_type,        \* type of the packet being handled
    packet_data_size,   \* payload size of the packet being handled
    arg,                \* argument passed to the handler being run
    targets,            \* <<wait_target_ns, duration_target_ns>> of a timing packet
    loc,                \* locals of set_strobe_timing
    rc,                 \* status byte of the pending response
    response,           \* record handed to spi_packet_write, until it is sent
    \* peripheral registers
    T2CON, PR2, TMR2,   \* wait timer: control, period, counter
    T4CON, PR4,         \* duration timer: control, period
    LC3G3POL,           \* output polarity (hold)
    TMR1IE, TMR1IF,     \* gate interrupt enable and pending flag
    T1GGO,              \* 1 while a single-pulse gate acquisition is open
    TMR1,               \* gate counter
    \* control
    pc,                 \* statement the foreground loop executes next
    isr_pc,             \* statement the interrupt handler executes next
    \* observers (written, never read, by the actions)
    gate_count,         \* counts made by TMR1 in the current acquisition alone
    last_capture,       \* counts made in the acquisition that closed last
    gate_started,       \* the interrupt path started the wait timer since
                        \* Hardware mode was entered and since the last setEnable
    started_in_cmd,     \* the interrupt path started the wait timer while the
                        \* command now being handled was in progress
    edge_in_hw,         \* a gate edge has arrived since Hardware mode was entered
    \* one call of find_scalers_time (SolveSpec)
    solve               \* [pc, target, ret, prescale, postscale, period]

fw_vars   == <<trigger_mode, strobe_enabled, cam_read_time_us, packet_type,
               packet_data_size, arg, targets, loc, rc, response>>

reg_vars  == <<T2CON, PR2, TMR2, T4CON, PR4, LC3G3POL, TMR1IE, TMR1IF, T1GGO, TMR1>>

ctl_vars  == <<pc, isr_pc>>

obs_vars  == <<gate_count, last_capture, gate_started, started_in_cmd, edge_in_hw>>

vars == <<fw_vars, reg_vars, ctl_vars, obs_vars, solve>>

(***************************************************************************)
(* Inputs.                                                                 *)
(***************************************************************************)
\* Targets given to find_scalers_time in SolveSpec: every small one, where
\* the search starts to find combinations, and large ones up to and beyond
\* the range check of line 74.
SolveTargets ==
    (0 .. MaxSmallTarget)
    \cup {116688, 500000, 1000000}
    \cup {MAX_TIME_NS - 1, MAX_TIME_NS, MAX_TIME_NS + 1}
    \cup {16384000, 16384001, 20000000}

\* Targets a SET_STROBE_TIMING packet carries in Spec, for the wait and for
\* the duration: one too small for any combination to be accepted, two in
\* range, one beyond the range check.
TimingTargets == {16, 500000, 1000000, MAX_TIME_NS + 1}

\* Payload sizes a packet may declare: the three expected ones, each wrong
\* for some command.
PacketSizes == {0, 1, 8}

\* First payload byte of a one-byte command.
PayloadBytes == {0, 1, 2}

\* What the caller's uninitialised uint8_t locals may hold before the call
\* (set_strobe_timing, lines 148-153): any byte; these stand for all of them.
UninitBytes == {0, 1, 255}

(***************************************************************************)
(* Initial state: main, lines 223-235, on the registers' reset values.     *)
(***************************************************************************)
LocInit == [wait_ns |-> 0, duration_ns |-> 0,
            wait_prescale |-> 0, wait_postscale |-> 0, wait_period |-> 0,
            duration_prescale |-> 0, duration_postscale |-> 0, duration_period |-> 0,
            t4con_copy |-> 0, t2con_read |-> 0]

SolveIdle == [pc |-> "idle", target |-> 0, ret |-> 0,
              prescale |-> 0, postscale |-> 0, period |-> 0]

CtlInit ==
    /\ trigger_mode = 0
    /\ strobe_enabled = 0
    /\ cam_read_time_us = 0
    /\ packet_type = 0
    /\ packet_data_size = 0
    /\ arg = 0
    /\ targets = <<0, 0>>
    /\ loc = LocInit
    /\ rc = "ERR_OK"
    /\ response = <<>>
    /\ T2CON = 0 /\ PR2 = 255 /\ TMR2 = 0
    /\ T4CON = 0 /\ PR4 = 255
    /\ LC3G3POL = 0
    /\ TMR1IE = 0 /\ TMR1IF = 0
    /\ T1GGO = 0
    /\ TMR1 = 0
    /\ pc = "loop"
    /\ isr_pc = "idle"
    /\ gate_count = 0
    /\ last_capture = 0
    /\ gate_started = FALSE
    /\ started_in_cmd = FALSE
    /\ edge_in_hw = FALSE

Init == CtlInit /\ solve = SolveIdle

(***************************************************************************)
(* Scheduling.  One foreground loop and one interrupt context.  Global and *)
(* peripheral interrupts are enabled before the loop (main, lines 234-235), *)
(* so a pending, enabled gate interrupt is taken before the next foreground *)
(* statement; the handler runs to its end without being preempted.  The    *)
(* pin-change and SPI branches of the interrupt manager (lines 22-25,      *)
(* 43-46) belong to the transport and are not modelled.                    *)
(***************************************************************************)

\* interrupt_manager_hardware_trigger.c, line 29: the gate interrupt's condition
IrqPending == TMR1IE = 1 /\ TMR1IF = 1

\* The foreground loop may execute the statement at `at`.
Fg(at) == pc = at /\ isr_pc = "idle" /\ ~IrqPending

\* The foreground loop is inside a command handler (lines 252-322).
InCommand == pc \notin {"loop", "poll", "poll_read", "poll_zero", "poll_start"}

\* TMR1_StartSinglePulseAcquisition (tmr1.c, generated): T1GCONbits.T1GGO = 1
StartSinglePulseAcquisition == 1

\* Counts of the acquisition that StartSinglePulseAcquisition leaves open: a
\* new acquisition starts counting at none, an open one goes on.
CountAfterStart == IF T1GGO = 0 THEN 0 ELSE gate_count

(***************************************************************************)
(* Environment: the gate input and the timers' clocks.                     *)
(***************************************************************************)

\* A gate edge ends the open acquisition: the hardware clears T1GGO and raises
\* the flag the firmware services as the gate interrupt.
GateEdge ==
    /\ T1GGO = 1
    /\ TMR1IF' = 1
    /\ T1GGO' = 0
    /\ last_capture' = gate_count
    /\ edge_in_hw' = (trigger_mode = 1)
    /\ UNCHANGED <<trigger_mode, strobe_enabled, cam_read_time_us,
                   packet_type, packet_data_size, arg, targets, loc, rc,
                   response, T2CON, PR2, TMR2, T4CON, PR4, LC3G3POL, TMR1IE,
                   TMR1, pc, isr_pc, gate_count, gate_started,
                   started_in_cmd, solve>>


\* TMR1 counts while an acquisition is open.
Tmr1Count ==
    /\ T1GGO = 1
    /\ TMR1 < MaxTMR1
    /\ gate_count < MaxTMR1
    /\ TMR1' = TMR1 + 1
    /\ gate_count' = gate_count + 1
    /\ UNCHANGED <<trigger_mode, strobe_enabled, cam_read_time_us,
                   packet_type, packet_data_size, arg, targets, loc, rc,
                   response, T2CON, PR2, TMR2, T4CON, PR4, LC3G3POL, TMR1IE,
                   TMR1IF, T1GGO, pc, isr_pc, last_capture, gate_started,
                   started_in_cmd, edge_in_hw, solve>>


\* TMR2 counts while the wait timer is on.
Tmr2Count ==
    /\ OnBit(T2CON) = 1
    /\ TMR2 < MaxTMR2
    /\ TMR2' = TMR2 + 1
    /\ UNCHANGED <<trigger_mode, strobe_enabled, cam_read_time_us,
                   packet_type, packet_data_size, arg, targets, loc, rc,
                   response, T2CON, PR2, T4CON, PR4, LC3G3POL, TMR1IE,
                   TMR1IF, T1GGO, TMR1, pc, isr_pc, gate_count, last_capture,
                   gate_started, started_in_cmd, edge_in_hw, solve>>


(***************************************************************************)
(* INTERRUPT_InterruptManager and hardware_trigger_strobe.                 *)
(***************************************************************************)

\* interrupt_manager, lines 26-31: the gate interrupt is taken and its flag cleared
IsrEnter ==
    /\ isr_pc = "idle"
    /\ IrqPending
    /\ TMR1IF' = 0
    /\ isr_pc' = "isr_gate"
    /\ UNCHANGED <<trigger_mode, strobe_enabled, cam_read_time_us,
                   packet_type, packet_data_size, arg, targets, loc, rc,
                   response, T2CON, PR2, TMR2, T4CON, PR4, LC3G3POL, TMR1IE,
                   T1GGO, TMR1, pc, gate_count, last_capture, gate_started,
                   started_in_cmd, edge_in_hw, solve>>


\* line 34: the handler is called only if the acquisition is closed
GateTriggered == T1GGO = 0

\* lines 34-42
IsrCheckGate ==
    /\ isr_pc = "isr_gate"
    /\ isr_pc' = IF GateTriggered THEN "hts_check" ELSE "idle"
    /\ UNCHANGED <<trigger_mode, strobe_enabled, cam_read_time_us,
                   packet_type, packet_data_size, arg, targets, loc, rc,
                   response, T2CON, PR2, TMR2, T4CON, PR4, LC3G3POL, TMR1IE,
                   TMR1IF, T1GGO, TMR1, pc, gate_count, last_capture,
                   gate_started, started_in_cmd, edge_in_hw, solve>>


\* (as TriggerAllowed, without the test of strobe_enabled)
TriggerAllowedAnyEnable == trigger_mode = 1

\* main_hardware_trigger.c, line 204
TriggerAllowed == strobe_enabled = 1 /\ trigger_mode = 1

\* hardware_trigger_strobe, line 204
HtsCheck ==
    /\ isr_pc = "hts_check"
    /\ isr_pc' = IF TriggerAllowed THEN "hts_reset" ELSE "isr_restart"
    /\ UNCHANGED <<trigger_mode, strobe_enabled, cam_read_time_us,
                   packet_type, packet_data_size, arg, targets, loc, rc,
                   response, T2CON, PR2, TMR2, T4CON, PR4, LC3G3POL, TMR1IE,
                   TMR1IF, T1GGO, TMR1, pc, gate_count, last_capture,
                   gate_started, started_in_cmd, edge_in_hw, solve>>


\* line 208: TMR2 = 0
HtsReset ==
    /\ isr_pc = "hts_reset"
    /\ TMR2' = 0
    /\ isr_pc' = "hts_start"
    /\ UNCHANGED <<trigger_mode, strobe_enabled, cam_read_time_us,
                   packet_type, packet_data_size, arg, targets, loc, rc,
                   response, T2CON, PR2, T4CON, PR4, LC3G3POL, TMR1IE,
                   TMR1IF, T1GGO, TMR1, pc, gate_count, last_capture,
                   gate_started, started_in_cmd, edge_in_hw, solve>>


\* line 209: T2CONbits.T2ON = 1
HtsStart ==
    /\ isr_pc = "hts_start"
    /\ T2CON' = WithOnBit(T2CON, 1)
    /\ isr_pc' = "hts_restart"
    /\ gate_started' = TRUE
    /\ started_in_cmd' = InCommand
    /\ UNCHANGED <<trigger_mode, strobe_enabled, cam_read_time_us,
                   packet_type, packet_data_size, arg, targets, loc, rc,
                   response, PR2, TMR2, T4CON, PR4, LC3G3POL, TMR1IE, TMR1IF,
                   T1GGO, TMR1, pc, gate_count, last_capture, edge_in_hw,
                   solve>>


\* line 213: TMR1_StartSinglePulseAcquisition()
HtsRestart ==
    /\ isr_pc = "hts_restart"
    /\ T1GGO' = StartSinglePulseAcquisition
    /\ isr_pc' = "isr_restart"
    /\ gate_count' = CountAfterStart
    /\ UNCHANGED <<trigger_mode, strobe_enabled, cam_read_time_us,
                   packet_type, packet_data_size, arg, targets, loc, rc,
                   response, T2CON, PR2, TMR2, T4CON, PR4, LC3G3POL, TMR1IE,
                   TMR1IF, TMR1, pc, last_capture, gate_started,
                   started_in_cmd, edge_in_hw, solve>>


\* (as IsrRestart, with the handler storing the gate count itself)
IsrRestartStoringCount ==
    /\ isr_pc = "isr_restart"
    /\ cam_read_time_us' = TMR1
    /\ T1GGO' = StartSinglePulseAcquisition
    /\ isr_pc' = "idle"
    /\ gate_count' = CountAfterStart
    /\ UNCHANGED <<trigger_mode, strobe_enabled, packet_type,
                   packet_data_size, arg, targets, loc, rc, response, T2CON,
                   PR2, TMR2, T4CON, PR4, LC3G3POL, TMR1IE, TMR1IF, TMR1, pc,
                   last_capture, gate_started, started_in_cmd, edge_in_hw,
                   solve>>


\* interrupt_manager, line 40: TMR1_StartSinglePulseAcquisition(), and return
IsrRestart ==
    /\ isr_pc = "isr_restart"
    /\ T1GGO' = StartSinglePulseAcquisition
    /\ isr_pc' = "idle"
    /\ gate_count' = CountAfterStart
    /\ UNCHANGED <<trigger_mode, strobe_enabled, cam_read_time_us,
                   packet_type, packet_data_size, arg, targets, loc, rc,
                   response, T2CON, PR2, TMR2, T4CON, PR4, LC3G3POL, TMR1IE,
                   TMR1IF, TMR1, pc, last_capture, gate_started,
                   started_in_cmd, edge_in_hw, solve>>


(***************************************************************************)
(* main: packet read and dispatch (lines 243-324).                         *)
(***************************************************************************)

\* (as ExpectedSize, with every command taking one byte)
ExpectedSizeOneByte(type) == 1

\* Expected payload size of each command (lines 254, 266, 286, 298, 313)
ExpectedSize(type) ==
    CASE type = 1 -> 1
      [] type = 2 -> 8
      [] type = 3 -> 1
      [] type = 4 -> 0
      [] type = 5 -> 1

\* First statement of each command's handler
HandlerEntry(type) ==
    CASE type = 1 -> "en_store"
      [] type = 2 -> "st_solve"
      [] type = 3 -> "hold_set"
      [] type = 4 -> "respond"
      [] type = 5 -> "tm_store"

\* packet_data[0] ? 1 : 0 (lines 256, 288, 315)
Truth(byte) == IF byte # 0 THEN 1 ELSE 0

\* lines 243-324: a packet of a recognised type goes to its handler if its
\* size is the expected one and to an ERR_PACKET_INVALID response otherwise.
ReadPacket ==
    /\ Fg("loop")
    /\ \E type \in 1 .. 5, size \in PacketSizes, byte \in PayloadBytes,
          w \in TimingTargets, d \in TimingTargets :
          /\ (type # 2 \/ size # 8) => (w = 16 /\ d = 16)
          /\ (type \notin {1, 3, 5} \/ size # 1) => byte = 0
          /\ packet_type' = type
          /\ packet_data_size' = size
          /\ arg' = IF type \in {1, 3, 5} /\ size = 1 THEN Truth(byte) ELSE 0
          /\ targets' = IF type = 2 /\ size = 8 THEN <<w, d>> ELSE <<0, 0>>
          /\ rc' = IF packet_data_size' = ExpectedSize(type)
                   THEN "ERR_OK" ELSE "ERR_PACKET_INVALID"
          /\ pc' = IF packet_data_size' = ExpectedSize(type)
                   THEN HandlerEntry(type) ELSE "respond"
    /\ UNCHANGED <<trigger_mode, strobe_enabled, cam_read_time_us, loc, response>>
    /\ UNCHANGED <<reg_vars, isr_pc, obs_vars, solve>>


\* lines 243-251, 323: no packet, packet type 0, or an unrecognised type:
\* nothing is done and nothing is written back
ReadNothing ==
    /\ Fg("loop")
    /\ pc' = "poll"
    /\ UNCHANGED <<trigger_mode, strobe_enabled, cam_read_time_us,
                   packet_type, packet_data_size, arg, targets, loc, rc,
                   response, T2CON, PR2, TMR2, T4CON, PR4, LC3G3POL, TMR1IE,
                   TMR1IF, T1GGO, TMR1, isr_pc, gate_count, last_capture,
                   gate_started, started_in_cmd, edge_in_hw, solve>>


\* Payload of the response (lines 261, 274, 279, 293, 302, 307, 320)
ResponsePayload ==
    IF rc = "ERR_OK" /\ packet_type = 2 THEN <<loc.wait_ns, loc.duration_ns>>
    ELSE IF rc = "ERR_OK" /\ packet_type = 4 THEN <<cam_read_time_us>>
    ELSE <<>>

\* spi_packet_write: the response record <<type, status, payload>>.  The packet,
\* the status and the handler's locals are dead from here on.
Respond ==
    /\ Fg("respond")
    /\ packet_type' = 0
    /\ packet_data_size' = 0
    /\ arg' = 0
    /\ targets' = <<0, 0>>
    /\ loc' = LocInit
    /\ rc' = "ERR_OK"
    /\ response' = <<packet_type, rc>> \o ResponsePayload
    /\ pc' = "poll"
    /\ started_in_cmd' = FALSE
    /\ UNCHANGED <<trigger_mode, strobe_enabled, cam_read_time_us, T2CON,
                   PR2, TMR2, T4CON, PR4, LC3G3POL, TMR1IE, TMR1IF, T1GGO,
                   TMR1, isr_pc, gate_count, last_capture, gate_started,
                   edge_in_hw, solve>>


(***************************************************************************)
(* set_strobe_enable (lines 121-138).                                      *)
(***************************************************************************)

\* line 123: strobe_enabled = enable ? 1 : 0
EnStore ==
    /\ Fg("en_store")
    /\ strobe_enabled' = Truth(arg)
    /\ pc' = "en_t2on"
    /\ UNCHANGED <<trigger_mode, cam_read_time_us, packet_type,
                   packet_data_size, arg, targets, loc, rc, response, T2CON,
                   PR2, TMR2, T4CON, PR4, LC3G3POL, TMR1IE, TMR1IF, T1GGO,
                   TMR1, isr_pc, gate_count, last_capture, gate_started,
                   started_in_cmd, edge_in_hw, solve>>


\* (as EnableT2On, with Hardware mode starting the wait timer)
EnableT2OnHardwareStarts(mode, enable) == IF mode = 0 THEN enable ELSE 1

\* lines 125-135: what set_strobe_enable writes to T2CONbits.T2ON
EnableT2On(mode, enable) == IF mode = 0 THEN enable ELSE 0

\* lines 128, 135: T2CONbits.T2ON
EnT2On ==
    /\ Fg("en_t2on")
    /\ T2CON' = WithOnBit(T2CON, EnableT2On(trigger_mode, arg))
    /\ pc' = "en_t4on"
    /\ gate_started' = FALSE
    /\ UNCHANGED <<trigger_mode, strobe_enabled, cam_read_time_us,
                   packet_type, packet_data_size, arg, targets, loc, rc,
                   response, PR2, TMR2, T4CON, PR4, LC3G3POL, TMR1IE, TMR1IF,
                   T1GGO, TMR1, isr_pc, gate_count, last_capture,
                   started_in_cmd, edge_in_hw, solve>>


\* lines 129, 136: T4CONbits.T4ON = 1
EnT4On ==
    /\ Fg("en_t4on")
    /\ T4CON' = WithOnBit(T4CON, 1)
    /\ pc' = "respond"
    /\ UNCHANGED <<trigger_mode, strobe_enabled, cam_read_time_us,
                   packet_type, packet_data_size, arg, targets, loc, rc,
                   response, T2CON, PR2, TMR2, PR4, LC3G3POL, TMR1IE, TMR1IF,
                   T1GGO, TMR1, isr_pc, gate_count, last_capture,
                   gate_started, started_in_cmd, edge_in_hw, solve>>


(***************************************************************************)
(* set_strobe_hold (lines 140-144).                                        *)
(***************************************************************************)

\* line 143: LC3G3POL = hold ? 1 : 0
HoldSet ==
    /\ Fg("hold_set")
    /\ LC3G3POL' = Truth(arg)
    /\ pc' = "respond"
    /\ UNCHANGED <<trigger_mode, strobe_enabled, cam_read_time_us,
                   packet_type, packet_data_size, arg, targets, loc, rc,
                   response, T2CON, PR2, TMR2, T4CON, PR4, TMR1IE, TMR1IF,
                   T1GGO, TMR1, isr_pc, gate_count, last_capture,
                   gate_started, started_in_cmd, edge_in_hw, solve>>


(***************************************************************************)
(* set_strobe_timing (lines 146-173).                                      *)
(***************************************************************************)

\* (as BothSolved, with || for &&)
EitherSolved(wait_ns, duration_ns) == wait_ns > 0 \/ duration_ns > 0

\* line 161: both solves succeeded
BothSolved(wait_ns, duration_ns) == wait_ns > 0 /\ duration_ns > 0

\* lines 170-171: the control byte written back: the ON bit kept, the new
\* prescale in bits 6..4, the new postscale in bits 3..0
ControlByte(con, prescale, postscale) ==
    BitOr(BitOr(BitAnd(con, 128), Shl(prescale, 4)), postscale)

\* find_scalers_time on every target a packet carries, computed once
SolveTable == [t \in TimingTargets |-> find_scalers_time(t)]

\* lines 158-161: the two calls of find_scalers_time, each storing its
\* dividers into the locals only if it gets past the range check, and the
\* test that both succeeded
StSolve ==
    /\ Fg("st_solve")
    /\ LET w == SolveTable[targets[1]]
           d == SolveTable[targets[2]]
       IN  loc' = [loc EXCEPT
                     !.wait_ns = w.ret,
                     !.duration_ns = d.ret,
                     !.wait_prescale = IF w.written THEN w.prescale ELSE @,
                     !.wait_postscale = IF w.written THEN w.postscale ELSE @,
                     !.wait_period = IF w.written THEN w.period ELSE @,
                     !.duration_prescale = IF d.written THEN d.prescale ELSE @,
                     !.duration_postscale = IF d.written THEN d.postscale ELSE @,
                     !.duration_period = IF d.written THEN d.period ELSE @]
    /\ pc' = IF BothSolved(loc'.wait_ns, loc'.duration_ns) THEN "st_save" ELSE "respond"
    /\ UNCHANGED <<trigger_mode, strobe_enabled, cam_read_time_us, packet_type,
                   packet_data_size, arg, targets, rc, response>>
    /\ UNCHANGED <<reg_vars, isr_pc, obs_vars, solve>>


\* line 164: t4con_copy = T4CON
StSave ==
    /\ Fg("st_save")
    /\ loc' = [loc EXCEPT !.t4con_copy = T4CON]
    /\ pc' = "st_stop"
    /\ UNCHANGED <<trigger_mode, strobe_enabled, cam_read_time_us,
                   packet_type, packet_data_size, arg, targets, rc, response,
                   T2CON, PR2, TMR2, T4CON, PR4, LC3G3POL, TMR1IE, TMR1IF,
                   T1GGO, TMR1, isr_pc, gate_count, last_capture,
                   gate_started, started_in_cmd, edge_in_hw, solve>>


\* line 165: T4CON = 0
StStop ==
    /\ Fg("st_stop")
    /\ T4CON' = 0
    /\ pc' = "st_pr2"
    /\ UNCHANGED <<trigger_mode, strobe_enabled, cam_read_time_us,
                   packet_type, packet_data_size, arg, targets, loc, rc,
                   response, T2CON, PR2, TMR2, PR4, LC3G3POL, TMR1IE, TMR1IF,
                   T1GGO, TMR1, isr_pc, gate_count, last_capture,
                   gate_started, started_in_cmd, edge_in_hw, solve>>


\* line 168: PR2 = wait_period
StPr2 ==
    /\ Fg("st_pr2")
    /\ PR2' = loc.wait_period
    /\ pc' = "st_pr4"
    /\ UNCHANGED <<trigger_mode, strobe_enabled, cam_read_time_us,
                   packet_type, packet_data_size, arg, targets, loc, rc,
                   response, T2CON, TMR2, T4CON, PR4, LC3G3POL, TMR1IE,
                   TMR1IF, T1GGO, TMR1, isr_pc, gate_count, last_capture,
                   gate_started, started_in_cmd, edge_in_hw, solve>>


\* line 169: PR4 = duration_period
StPr4 ==
    /\ Fg("st_pr4")
    /\ PR4' = loc.duration_period
    /\ pc' = "st_t2read"
    /\ UNCHANGED <<trigger_mode, strobe_enabled, cam_read_time_us,
                   packet_type, packet_data_size, arg, targets, loc, rc,
                   response, T2CON, PR2, TMR2, T4CON, LC3G3POL, TMR1IE,
                   TMR1IF, T1GGO, TMR1, isr_pc, gate_count, last_capture,
                   gate_started, started_in_cmd, edge_in_hw, solve>>


\* line 170, first half: T2CON is read
StT2Read ==
    /\ Fg("st_t2read")
    /\ loc' = [loc EXCEPT !.t2con_read = T2CON]
    /\ pc' = "st_t2write"
    /\ UNCHANGED <<trigger_mode, strobe_enabled, cam_read_time_us,
                   packet_type, packet_data_size, arg, targets, rc, response,
                   T2CON, PR2, TMR2, T4CON, PR4, LC3G3POL, TMR1IE, TMR1IF,
                   T1GGO, TMR1, isr_pc, gate_count, last_capture,
                   gate_started, started_in_cmd, edge_in_hw, solve>>


\* line 170, second half: the byte computed from the value read is stored
StT2Write ==
    /\ Fg("st_t2write")
    /\ T2CON' = ControlByte(loc.t2con_read, loc.wait_prescale, loc.wait_postscale)
    /\ pc' = "st_t4write"
    /\ UNCHANGED <<trigger_mode, strobe_enabled, cam_read_time_us,
                   packet_type, packet_data_size, arg, targets, loc, rc,
                   response, PR2, TMR2, T4CON, PR4, LC3G3POL, TMR1IE, TMR1IF,
                   T1GGO, TMR1, isr_pc, gate_count, last_capture,
                   gate_started, started_in_cmd, edge_in_hw, solve>>


\* line 171
StT4Write ==
    /\ Fg("st_t4write")
    /\ T4CON' = ControlByte(loc.t4con_copy, loc.duration_prescale, loc.duration_postscale)
    /\ pc' = "respond"
    /\ UNCHANGED <<trigger_mode, strobe_enabled, cam_read_time_us,
                   packet_type, packet_data_size, arg, targets, loc, rc,
                   response, T2CON, PR2, TMR2, PR4, LC3G3POL, TMR1IE, TMR1IF,
                   T1GGO, TMR1, isr_pc, gate_count, last_capture,
                   gate_started, started_in_cmd, edge_in_hw, solve>>


(***************************************************************************)
(* set_trigger_mode (lines 176-195).                                       *)
(***************************************************************************)

\* line 178: trigger_mode = ( mode == 1 ) ? 1 : 0
TmStore ==
    /\ Fg("tm_store")
    /\ trigger_mode' = IF arg = 1 THEN 1 ELSE 0
    /\ pc' = "tm_ie"
    /\ gate_started' = IF trigger_mode = 0 /\ arg = 1 THEN FALSE ELSE gate_started
    /\ edge_in_hw' = (trigger_mode = 1 /\ arg = 1 /\ edge_in_hw)
    /\ UNCHANGED <<strobe_enabled, cam_read_time_us, packet_type,
                   packet_data_size, arg, targets, loc, rc, response, T2CON,
                   PR2, TMR2, T4CON, PR4, LC3G3POL, TMR1IE, TMR1IF, T1GGO,
                   TMR1, isr_pc, gate_count, last_capture, started_in_cmd,
                   solve>>


\* (as GateInterruptEnable, without the disarming of line 193)
GateInterruptEnableKept(mode) == 1

\* lines 180-193: what set_trigger_mode writes to PIE4bits.TMR1IE
GateInterruptEnable(mode) == IF mode = 1 THEN 1 ELSE 0

\* lines 184, 193: PIE4bits.TMR1IE
TmIe ==
    /\ Fg("tm_ie")
    /\ TMR1IE' = GateInterruptEnable(trigger_mode)
    /\ pc' = IF trigger_mode = 1 THEN "tm_if" ELSE "respond"
    /\ UNCHANGED <<trigger_mode, strobe_enabled, cam_read_time_us,
                   packet_type, packet_data_size, arg, targets, loc, rc,
                   response, T2CON, PR2, TMR2, T4CON, PR4, LC3G3POL, TMR1IF,
                   T1GGO, TMR1, isr_pc, gate_count, last_capture,
                   gate_started, started_in_cmd, edge_in_hw, solve>>


\* line 185: PIR4bits.TMR1IF = 0.  The interrupt enabled on line 184 is
\* taken first if the flag is already up.

TmIf ==
    /\ Fg("tm_if")
    /\ TMR1IF' = 0
    /\ pc' = "respond"
    /\ UNCHANGED <<trigger_mode, strobe_enabled, cam_read_time_us,
                   packet_type, packet_data_size, arg, targets, loc, rc,
                   response, T2CON, PR2, TMR2, T4CON, PR4, LC3G3POL, TMR1IE,
                   T1GGO, TMR1, isr_pc, gate_count, last_capture,
                   gate_started, started_in_cmd, edge_in_hw, solve>>


(***************************************************************************)
(* main: the gate-measurement poll (lines 327-336).                        *)
(***************************************************************************)

\* line 328: if ( T1GCONbits.T1GGO == 0 ).  By now the response record has gone out.
Poll ==
    /\ Fg("poll")
    /\ response' = <<>>
    /\ pc' = IF T1GGO = 0 THEN "poll_read" ELSE "loop"
    /\ UNCHANGED <<trigger_mode, strobe_enabled, cam_read_time_us,
                   packet_type, packet_data_size, arg, targets, loc, rc,
                   T2CON, PR2, TMR2, T4CON, PR4, LC3G3POL, TMR1IE, TMR1IF,
                   T1GGO, TMR1, isr_pc, gate_count, last_capture,
                   gate_started, started_in_cmd, edge_in_hw, solve>>


\* line 332: cam_read_time_us = TMR1_ReadTimer()
PollRead ==
    /\ Fg("poll_read")
    /\ cam_read_time_us' = TMR1
    /\ pc' = "poll_zero"
    /\ UNCHANGED <<trigger_mode, strobe_enabled, packet_type,
                   packet_data_size, arg, targets, loc, rc, response, T2CON,
                   PR2, TMR2, T4CON, PR4, LC3G3POL, TMR1IE, TMR1IF, T1GGO,
                   TMR1, isr_pc, gate_count, last_capture, gate_started,
                   started_in_cmd, edge_in_hw, solve>>


\* line 333: TMR1_WriteTimer( 0 )
PollZero ==
    /\ Fg("poll_zero")
    /\ TMR1' = 0
    /\ pc' = "poll_start"
    /\ UNCHANGED <<trigger_mode, strobe_enabled, cam_read_time_us,
                   packet_type, packet_data_size, arg, targets, loc, rc,
                   response, T2CON, PR2, TMR2, T4CON, PR4, LC3G3POL, TMR1IE,
                   TMR1IF, T1GGO, isr_pc, gate_count, last_capture,
                   gate_started, started_in_cmd, edge_in_hw, solve>>


\* line 334: TMR1_StartSinglePulseAcquisition()
PollStart ==
    /\ Fg("poll_start")
    /\ T1GGO' = StartSinglePulseAcquisition
    /\ pc' = "loop"
    /\ gate_count' = CountAfterStart
    /\ UNCHANGED <<trigger_mode, strobe_enabled, cam_read_time_us,
                   packet_type, packet_data_size, arg, targets, loc, rc,
                   response, T2CON, PR2, TMR2, T4CON, PR4, LC3G3POL, TMR1IE,
                   TMR1IF, TMR1, isr_pc, last_capture, gate_started,
                   started_in_cmd, edge_in_hw, solve>>


(***************************************************************************)
(* The controller.                                                         *)
(***************************************************************************)

Next ==
    \/ GateEdge
    \/ Tmr1Count
    \/ Tmr2Count
    \/ IsrEnter
    \/ IsrCheckGate
    \/ HtsCheck
    \/ HtsReset
    \/ HtsStart
    \/ HtsRestart
    \/ IsrRestart
    \/ ReadPacket
    \/ ReadNothing
    \/ Respond
    \/ EnStore
    \/ EnT2On
    \/ EnT4On
    \/ HoldSet
    \/ StSolve
    \/ StSave
    \/ StStop
    \/ StPr2
    \/ StPr4
    \/ StT2Read
    \/ StT2Write
    \/ StT4Write
    \/ TmStore
    \/ TmIe
    \/ TmIf
    \/ Poll
    \/ PollRead
    \/ PollZero
    \/ PollStart

Spec == Init /\ [][Next]_vars

(***************************************************************************)
(* SolveSpec: one call of find_scalers_time, as set_strobe_timing makes    *)
(* it (lines 158-159): the three result variables are the caller's         *)
(* uninitialised locals, written through the pointers only on the return   *)
(* of line 117.                                                            *)
(***************************************************************************)
SolveInit ==
    /\ CtlInit
    /\ \E t \in SolveTargets, a, b, c \in UninitBytes :
          solve = [pc |-> "call", target |-> t, ret |-> 0,
                   prescale |-> a, postscale |-> b, period |-> c]

SolveCall ==
    /\ solve.pc = "call"
    /\ LET r == find_scalers_time(solve.target)
       IN  solve' = [pc        |-> "done",
                     target    |-> solve.target,
                     ret       |-> r.ret,
                     prescale  |-> IF r.written THEN r.prescale ELSE solve.prescale,
                     postscale |-> IF r.written THEN r.postscale ELSE solve.postscale,
                     period    |-> IF r.written THEN r.period ELSE solve.period]
    /\ UNCHANGED <<fw_vars, reg_vars, ctl_vars, obs_vars>>

SolveNext == SolveCall

SolveSpec == SolveInit /\ [][SolveNext]_vars

(***************************************************************************)
(* Claims about find_scalers_time (SolveSpec).                             *)
(***************************************************************************)
\* Achieved times of all valid divider combinations: postscale count 1..16,
\* prescale 0..7, period count 1..255, without period count 1 at prescale 0.
ReachableTimes ==
    { TimeNs(pr, pe, po) :
        <<pr, pe, po>> \in { c \in (0 .. 7) \X (1 .. 255) \X (1 .. 16) :
                               ValidCombo(c[2], c[1]) } }

\* The maximum representable interval as the specification words it:
\* clock-tick period x 2^7 x 256 x 16, in ns.
SpecMaxTimeNs == ((PS_PER_TICK * 128) \div 1000) * 256 * 16

SolveDone == solve.pc = "done"

\* C2: for every target not exceeding the maximum representable time, the
\* achieved time returned has the smallest absolute error among the achieved
\* times of all valid divider combinations.
C2_ClosestOfAll ==
    (SolveDone /\ solve.target <= MAX_TIME_NS) =>
        \A t \in ReachableTimes :
            LabsDiff(solve.ret, solve.target) <= LabsDiff(t, solve.target)

\* C3: for every target not exceeding the maximum representable time, the
\* returned prescale is in 0..7, postscale in 0..15, period in 0..255, and
\* tick period x 2^prescale x (period+1) x (postscale+1), in the solver's
\* integer arithmetic, is exactly the returned achieved time.
C3_TripleReproducesAchieved ==
    (SolveDone /\ solve.target <= MAX_TIME_NS) =>
        /\ solve.prescale \in 0 .. 7
        /\ solve.postscale \in 0 .. 15
        /\ solve.period \in 0 .. 255
        /\ TimeNs(solve.prescale, solve.period + 1, solve.postscale + 1) = solve.ret

\* C4: every target not exceeding the maximum representable interval
\* (clock-tick period x 2^7 x 256 x 16) gets a non-zero achieved time; zero
\* is returned only for targets exceeding that maximum.
C4_InRangeIsNonZero ==
    SolveDone => (solve.ret = 0 <=> solve.target > SpecMaxTimeNs)

\* C5: whenever the achieved time returned is zero, the prescale, postscale
\* and period handed back are all zero.
C5_ZeroResultHasZeroDividers ==
    (SolveDone /\ solve.ret = 0) =>
        (solve.prescale = 0 /\ solve.postscale = 0 /\ solve.period = 0)


(***************************************************************************)
(* Further claims about find_scalers_time (SolveSpec).                     *)
(***************************************************************************)
\* The combination the search visits k-th when no exact match cuts it short:
\* postscale count 16 down to 1 and, within each, prescale 7 down to 0, with
\* the one period count the search derives for the pair.
Visited(target, k) ==
    LET po == 16 - ((k - 1) \div 8)
        pr == 7 - ((k - 1) % 8)
        pe == PeriodLoop(TicksOf(target) \div po, pr)
    IN  [postscale |-> po, prescale |-> pr, period |-> pe,
         valid |-> ValidCombo(pe, pr),
         time_ns |-> IF ValidCombo(pe, pr) THEN TimeNs(pr, pe, po) ELSE 0]

ValidVisits(target) == { k \in 1 .. 128 : Visited(target, k).valid }

\* The valid visits of minimal absolute error.
BestVisits(target) ==
    { k \in ValidVisits(target) :
        \A j \in ValidVisits(target) :
            LabsDiff(Visited(target, k).time_ns, target)
                <= LabsDiff(Visited(target, j).time_ns, target) }

\* C18: among the valid combinations of minimal absolute error,
\* find_scalers_time returns the one visited first in the order postscale 16
\* down to 1, prescale 7 down to 0, whether or not an exact match stops the
\* inner loop.
C18_FirstBestVisitWins ==
    (SolveDone /\ solve.target <= MAX_TIME_NS /\ ValidVisits(solve.target) # {}) =>
        LET first == CHOOSE k \in BestVisits(solve.target) :
                         \A j \in BestVisits(solve.target) : k <= j
            c == Visited(solve.target, first)
        IN  /\ solve.ret = c.time_ns
            /\ solve.prescale = c.prescale
            /\ solve.postscale = c.postscale - 1
            /\ solve.period = c.period - 1

\* floor((2^32 - 1 - c) / b) for 2 <= b < 2^15 and 0 <= c < 2^16, formed
\* from the two 16-bit halves of 2^32 - 1 so that no value leaves TLC's
\* integers.
MaxFactor(b, c) ==
    LET half == Pow2(16) - 1
    IN  IF b = 2
        THEN 2147483647 - (c \div 2)
        ELSE (half \div b) * Pow2(16) + ((half % b) * Pow2(16) + (half - c)) \div b

\* a * b + c fits a uint32_t (a < 2^31, 1 <= b < 2^15, 0 <= c < 2^16)
FitsU32(a, b, c) == b = 1 \/ a <= MaxFactor(b, c)

\* C19: for every target accepted by the range check, neither the scaled
\* target-to-ticks conversion of line 77 nor, for any combination the search
\* evaluates, the back-conversion product of line 97 (scaled tick period <<
\* prescale, times period count, times postscale count) exceeds 32 bits.
C19_NoOverflow ==
    solve.target <= MAX_TIME_NS =>
        /\ FitsU32(solve.target, 1000 \div TIME_SCALING,
                   Shr(PS_PER_TICK, 1) \div TIME_SCALING)
        /\ \A po \in 1 .. 16, pr \in 0 .. 7 :
              LET pe == PeriodLoop(TicksOf(solve.target) \div po, pr)
                  scaled == PS_PER_TICK \div TIME_SCALING
              IN  ValidCombo(pe, pr) =>
                      /\ FitsU32(scaled, Pow2(pr), 0)
                      /\ FitsU32(Shl(scaled, pr), pe, 0)
                      /\ FitsU32(Shl(scaled, pr) * pe, po, 0)

\* The largest target the range check accepts has been solved, exactly, with
\* the largest dividers.
C19_Witness ==
    /\ SolveDone
    /\ solve.target = MAX_TIME_NS
    /\ solve.ret = MAX_TIME_NS
    /\ solve.prescale = 7 /\ solve.postscale = 15 /\ solve.period = 254


(***************************************************************************)
(* Claims about the controller (Spec).                                     *)
(***************************************************************************)
\* The statements of set_strobe_timing that access the timers' registers
\* (lines 164-171).
AtTimingWrite ==
    pc \in {"st_save", "st_stop", "st_pr2", "st_pr4", "st_t2read", "st_t2write",
            "st_t4write"}

\* C1: set_strobe_timing is all-or-nothing: if find_scalers_time returns zero
\* for the wait target or for the duration target, the call returns without
\* a register write, PR2, T2CON, PR4 and T4CON holding their pre-call
\* values; its register statements are reached only with both results
\* non-zero.
C1_AllOrNothing ==
    /\ [](AtTimingWrite => (loc.wait_ns > 0 /\ loc.duration_ns > 0))
    /\ [][ ( /\ pc = "st_solve"
             /\ pc' # "st_solve"
             /\ (loc'.wait_ns = 0 \/ loc'.duration_ns = 0) )
           => ( /\ pc' = "respond"
                /\ PR2' = PR2 /\ T2CON' = T2CON
                /\ PR4' = PR4 /\ T4CON' = T4CON ) ]_vars

\* A timing update has returned with the wait target solved and the duration
\* target not, on timers that an earlier update had configured.
C1_Witness ==
    /\ pc = "respond"
    /\ packet_type = 2
    /\ loc.wait_ns > 0
    /\ loc.duration_ns = 0
    /\ PR2 # 255
    /\ T2CON % 128 # 0

\* Between the first and the last register access of a timing update.
InTimingUpdate == AtTimingWrite /\ pc # "st_save"

\* C6: a timing update never overlaps with the interrupt path's wait-timer
\* start: hardware_trigger_strobe does not reset or start the wait timer
\* between the first and the last register access of set_strobe_timing.
C6_NoOverlap ==
    ~(InTimingUpdate /\ isr_pc \in {"hts_reset", "hts_start"})

\* C7: in Hardware mode, an edge serviced while strobe_enabled is set starts
\* the wait timer, and the wait timer is still running once the interrupt
\* and the command that was in progress when the edge arrived have completed.
C7_EdgeStartSurvivesCommand ==
    /\ (isr_pc = "isr_restart" /\ TriggerAllowed) => OnBit(T2CON) = 1
    /\ (pc = "respond" /\ isr_pc = "idle" /\ started_in_cmd) => OnBit(T2CON) = 1

\* C8: while strobe_enabled is clear, or while trigger_mode is Software, no
\* gate edge serviced by the interrupt path resets or starts the wait timer:
\* the handler is at its reset and start statements (lines 208-209) only with
\* strobe_enabled set and trigger_mode Hardware.
C8_NoStartUnlessEnabledHardware ==
    isr_pc \in {"hts_reset", "hts_start"} =>
        (strobe_enabled = 1 /\ trigger_mode = 1)

\* In Hardware mode with the strobe disabled an edge has been serviced up to
\* the return of hardware_trigger_strobe, and the wait timer is off.
C8_Witness ==
    /\ isr_pc = "isr_restart"
    /\ trigger_mode = 1
    /\ strobe_enabled = 0
    /\ OnBit(T2CON) = 0

\* C9 (its second half): the value the poll stores into cam_read_time_us is
\* the count of the most recent completed capture alone.
C9_PollStoresLastCaptureAlone ==
    [][ (pc = "poll_read" /\ pc' = "poll_zero")
        => cam_read_time_us' = last_capture ]_vars

\* C10: whenever trigger_mode is Hardware and no command is in progress, the
\* wait timer is running only if a gate edge has been serviced by the
\* interrupt path since Hardware mode was entered and since the last
\* setEnable.
C10_HardwareWaitsForGate ==
    (~InCommand /\ trigger_mode = 1 /\ OnBit(T2CON) = 1) => gate_started


(***************************************************************************)
(* Further claims about the controller (Spec).                             *)
(***************************************************************************)
\* C11: whenever no command is being processed and trigger_mode is Software,
\* the wait timer is running exactly when strobe_enabled is set.
C11_SoftwareRunsIffEnabled ==
    (~InCommand /\ trigger_mode = 0) => (OnBit(T2CON) = 1 <=> strobe_enabled = 1)

\* set_trigger_mode has stored the mode and not yet written TMR1IE (between
\* lines 178 and 184/193).
InModeSwitch == pc = "tm_ie"

\* C12: whenever no set_trigger_mode call is in progress, the gate interrupt
\* is enabled exactly when trigger_mode is Hardware, and in Software mode the
\* interrupt handler is not running.
C12_GateInterruptIffHardware ==
    ~InModeSwitch =>
        /\ TMR1IE = 1 <=> trigger_mode = 1
        /\ trigger_mode = 0 => isr_pc = "idle"

\* Hardware mode has been left while a wait cycle started by a gate edge is
\* pending, and a further edge has raised the flag: it is not serviced.
C12_Witness ==
    /\ ~InCommand
    /\ trigger_mode = 0
    /\ gate_started
    /\ OnBit(T2CON) = 1
    /\ TMR1IE = 0
    /\ TMR1IF = 1
    /\ isr_pc = "idle"

\* Payload sizes of the five commands as the protocol table gives them.
TableSize == <<1, 8, 1, 0, 1>>

\* TriggerMode, StrobeEnableState, HoldOverride, CamReadInterval and both
\* timers' registers.
ControllerState ==
    <<trigger_mode, strobe_enabled, LC3G3POL, cam_read_time_us,
      T2CON, PR2, TMR2, T4CON, PR4>>

\* C13: a packet of a recognised type whose payload size differs from the
\* table's goes straight to a response that carries the ERR_PACKET_INVALID
\* status byte and nothing else, the controller state unchanged by the
\* dispatch and by the response; when nothing or a packet of unrecognised
\* type is read, no response is written and the state is unchanged.
C13_SizeMismatchIsRejected ==
    /\ [][ ( /\ pc = "loop" /\ pc' # "loop"
             /\ packet_type' \in 1 .. 5
             /\ packet_data_size' # TableSize[packet_type'] )
           => ( /\ pc' = "respond"
                /\ rc' = "ERR_PACKET_INVALID"
                /\ UNCHANGED ControllerState ) ]_vars
    /\ [][ (pc = "respond" /\ pc' # "respond" /\ rc = "ERR_PACKET_INVALID")
           => ( /\ response' = <<packet_type, "ERR_PACKET_INVALID">>
                /\ UNCHANGED ControllerState ) ]_vars
    /\ [][ (pc = "loop" /\ pc' = "poll")
           => (response' = <<>> /\ UNCHANGED ControllerState) ]_vars

\* A timing packet of the wrong size has been answered on a controller that
\* earlier commands had enabled and configured.
C13_Witness ==
    /\ pc = "poll"
    /\ response = <<2, "ERR_PACKET_INVALID">>
    /\ strobe_enabled = 1
    /\ PR2 # 255

\* C14: a successful set_strobe_timing preserves the enable bits: when it
\* returns, the duration timer's enable bit is the one saved on entry, and
\* its write of T2CON leaves the wait timer's enable bit as it finds it,
\* neither setting it nor clearing a start made by the interrupt path.
C14_EnableBitsPreserved ==
    /\ []( ( /\ pc = "respond" /\ packet_type = 2
             /\ loc.wait_ns > 0 /\ loc.duration_ns > 0 )
           => OnBit(T4CON) = OnBit(loc.t4con_copy) )
    /\ [][ (pc = "st_t2write" /\ pc' = "st_t4write")
           => OnBit(T2CON') = OnBit(T2CON) ]_vars

\* C15: an edge whose flag was raised before Hardware mode was entered never
\* starts the wait timer: the handler resets and starts the wait timer only
\* for an edge that has arrived since Hardware mode was entered.
C15_StaleEdgeDiscarded ==
    isr_pc \in {"hts_reset", "hts_start"} => edge_in_hw

\* set_strobe_enable has stored strobe_enabled and not yet set T4ON (between
\* lines 123 and 129/136).
InEnable == pc \in {"en_t2on", "en_t4on"}

\* C16: whenever the interrupt path resets and starts the wait timer, the
\* duration timer is running.  (strobe_enabled is set at that moment, so a
\* SET_STROBE_ENABLE has been processed unless one is still in progress.)
C16_DurationTimerRunsAtStart ==
    (isr_pc \in {"hts_reset", "hts_start"} /\ ~InEnable) => OnBit(T4CON) = 1

\* C17: no step of the interrupt path (INTERRUPT_InterruptManager and
\* hardware_trigger_strobe) writes trigger_mode, strobe_enabled or
\* cam_read_time_us, and a GET_CAM_READ_TIME response carries the interval as
\* the foreground poll stored it.
C17_InterruptPathWritesNoField ==
    /\ [][ isr_pc' # isr_pc
           => UNCHANGED <<trigger_mode, strobe_enabled, cam_read_time_us>> ]_vars
    /\ [][ (pc = "respond" /\ pc' = "poll" /\ packet_type = 4 /\ rc = "ERR_OK")
           => response' = <<4, "ERR_OK", cam_read_time_us>> ]_vars

\* The handler is starting the wait timer in the middle of a
\* GET_CAM_READ_TIME command, a non-zero interval being stored.
C17_Witness ==
    /\ isr_pc = "hts_start"
    /\ pc = "respond"
    /\ packet_type = 4
    /\ rc = "ERR_OK"
    /\ cam_read_time_us > 0

\* C20: whenever no command is in progress and strobe_enabled is clear, the
\* wait timer is off, in either trigger mode.
C20_DisabledMeansOff ==
    (~InCommand /\ strobe_enabled = 0) => OnBit(T2CON) = 0

\* In Hardware mode, after a timing update, the strobe has been disabled
\* with the wait timer having counted: the timer is off.
C20_Witness ==
    /\ ~InCommand
    /\ trigger_mode = 1
    /\ strobe_enabled = 0
    /\ OnBit(T2CON) = 0
    /\ TMR2 > 0
    /\ PR2 # 255

=============================================================================
